---- MODULE Spec2Model ----
(***************************************************************************)
(* Schema synchronization engine of the event-modeling app.                *)
(*                                                                         *)
(* A string of the program is modelled as a sequence of tokens, so that    *)
(* concatenation (`${blockId}-input`), endsWith, quoting and stripping are *)
(* computed and not assumed.  The schema text is a sequence of textual     *)
(* declarations; the AST (ParserTree) is a sequence of nodes of a          *)
(* different shape: parsing and printing convert between the two.          *)
(***************************************************************************)
EXTENDS Integers, Sequences, FiniteSets, TLC

\* ------------------------------------------------------------------ bounds
MaxEdits == 1         \* editor edits and imports in one run

\* ------------------------------------------------------------ small helpers
RECURSIVE SeqToSet(_)
SeqToSet(s) == IF s = <<>> THEN {} ELSE {Head(s)} \cup SeqToSet(Tail(s))

Last(s) == s[Len(s)]

endsWith(s, suf) ==
  /\ Len(s) >= Len(suf)
  /\ SubSeq(s, Len(s) - Len(suf) + 1, Len(s)) = suf

startsWith(s, pre) ==
  /\ Len(s) >= Len(pre)
  /\ SubSeq(s, 1, Len(pre)) = pre

\* ---------------------------------------------------------------- constants
NODEID_SUFFIXES == [INPUT |-> <<"-input">>, RESULT |-> <<"-result">>]

DIRECTIVE_NAMES == [EVENT_MODELING_BLOCK |-> "eventModelingBlock"]

DIRECTIVE_ARGS == [NODE_ID |-> "nodeId", BLOCK_ID |-> "blockId",
                   BLOCK_ENTITY_TYPE |-> "blockEntityType"]

BLOCK_ENTITY_TYPES == [BLOCK |-> <<"block">>, INPUT |-> <<"input">>, RESULT |-> <<"result">>]

TYPE_SUFFIXES == [INPUT |-> <<"Input">>, COMMAND_RESULT |-> <<"CommandResult">>]

QUOTE == "\""

Quoted(s) == <<QUOTE>> \o s \o <<QUOTE>>

\* ------------------------------------------------------------ the SDL codec
\* AST field type: a named type with its list / non-null wrapping.
PlainType(n) == [name |-> n, wrap |-> ""]

\* createPlainField({name, type}) used for a field of a type: a field
\* without arguments
PlainField(n, ty) == [name |-> n, type |-> ty, args |-> <<>>]

\* An argument of a directive in the AST.  An argument built with
\* createPlainField keeps its literal (quotes included) as the name of its
\* field type and has no value; a parsed argument carries value.value.
CreatedArg(n, lit) == [name |-> n, vtype |-> "none", value |-> <<>>, tname |-> lit]

ParsedArg(n, lit) ==
  IF Len(lit) >= 2 /\ Head(lit) = QUOTE /\ Last(lit) = QUOTE
    THEN [name |-> n, vtype |-> "StringValue",
          value |-> SubSeq(lit, 2, Len(lit) - 1), tname |-> <<>>]
    ELSE [name |-> n, vtype |-> "IntValue", value |-> lit, tname |-> <<>>]

PrintArg(a) ==
  [name |-> a.name,
   lit |-> IF a.vtype = "StringValue" THEN Quoted(a.value)
           ELSE IF a.vtype = "IntValue" THEN a.value
           ELSE a.tname]

ParseFieldType(toks) ==
  IF Head(toks) = "[" THEN [name |-> SubSeq(toks, 2, Len(toks) - 3), wrap |-> "[!]!"]
  ELSE IF Last(toks) = "!" THEN [name |-> SubSeq(toks, 1, Len(toks) - 1), wrap |-> "!"]
  ELSE [name |-> toks, wrap |-> ""]

PrintFieldType(t) ==
  IF t.wrap = "[!]!" THEN <<"[">> \o t.name \o <<"!", "]", "!">>
  ELSE IF t.wrap = "!" THEN t.name \o <<"!">>
  ELSE t.name

\* A field with its arguments: `pay(input: PayInput): Pay`
ParseField(f) ==
  [name |-> f.name, type |-> ParseFieldType(f.ty),
   args |-> [k \in 1..Len(f.args) |->
               [name |-> f.args[k].name, type |-> ParseFieldType(f.args[k].ty)]]]

PrintField(f) ==
  [name |-> f.name, ty |-> PrintFieldType(f.type),
   args |-> [k \in 1..Len(f.args) |->
               [name |-> f.args[k].name, ty |-> PrintFieldType(f.args[k].type)]]]

ParseDirective(d) ==
  [name |-> d.name, args |-> [i \in 1..Len(d.args) |-> ParsedArg(d.args[i].name, d.args[i].lit)]]

PrintDirective(d) ==
  [name |-> d.name, args |-> [i \in 1..Len(d.args) |-> PrintArg(d.args[i])]]

ParseDecl(t) ==
  [name |-> t.name,
   data |-> IF t.kw = "input" THEN "InputObjectTypeDefinition"
            ELSE IF t.kw = "enum" THEN "EnumTypeDefinition"
            ELSE "ObjectTypeDefinition",
   directives |-> [i \in 1..Len(t.dirs) |-> ParseDirective(t.dirs[i])],
   args |-> [i \in 1..Len(t.fields) |-> ParseField(t.fields[i])]]

PrintNode(n) ==
  [kw |-> IF n.data = "InputObjectTypeDefinition" THEN "input"
          ELSE IF n.data = "EnumTypeDefinition" THEN "enum"
          ELSE "type",
   name |-> n.name,
   dirs |-> [i \in 1..Len(n.directives) |-> PrintDirective(n.directives[i])],
   fields |-> [i \in 1..Len(n.args) |-> PrintField(n.args[i])]]

\* A piece of text that is no declaration (for example `{{{`).
Garbage == [kw |-> "{{{", name |-> <<>>, dirs |-> <<>>, fields |-> <<>>]

\* Parser.parse accepts a text iff it is a non-empty sequence of declarations.
Parses(text) == Len(text) > 0 /\ \A i \in 1..Len(text) : text[i].kw \in {"type", "input", "enum"}

\* A parse that swallows the error and hands back an empty tree
parseSchemaToAST_Swallow(text) ==
  IF Parses(text)
    THEN [ok |-> TRUE, nodes |-> [i \in 1..Len(text) |-> ParseDecl(text[i])]]
    ELSE [ok |-> TRUE, nodes |-> <<>>]

\* parseSchemaToAST: throws on a text that does not parse
parseSchemaToAST(text) ==
  IF Parses(text)
    THEN [ok |-> TRUE, nodes |-> [i \in 1..Len(text) |-> ParseDecl(text[i])]]
    ELSE [ok |-> FALSE, nodes |-> <<>>]

\* A run of whitespace.  Whitespace between declarations is no piece of a
\* text here; Blank pieces make up the texts that are whitespace only.
Blank == [kw |-> " ", name |-> <<>>, dirs |-> <<>>, fields |-> <<>>]

\* schema.trim()
trim(text) == SelectSeq(text, LAMBDA t : t # Blank)

\* A safe parse without the catch: only the empty text is taken care of
parseSchemaToASTSafe_NoCatch(text) ==
  IF text = <<>> \/ trim(text) = <<>> THEN [ok |-> TRUE, nodes |-> <<>>]
  ELSE parseSchemaToAST(text)

\* parseSchemaToASTSafe: { nodes: [] } for an empty text and in the catch
parseSchemaToASTSafe(text) ==
  IF text = <<>> \/ trim(text) = <<>> THEN [ok |-> TRUE, nodes |-> <<>>]
  ELSE IF parseSchemaToAST(text).ok THEN parseSchemaToAST(text)
  ELSE [ok |-> TRUE, nodes |-> <<>>]

\* generateSchemaFromAST: prints every node
generateSchemaFromAST(nodes) == [i \in 1..Len(nodes) |-> PrintNode(nodes[i])]

\* ------------------------------------------------- identity directive codec
\* `undefined`, the result of a find() that matched nothing
NoDirective == [name |-> "", args |-> <<>>]

FirstIndex(s, Test(_)) ==
  IF \E i \in 1..Len(s) : Test(s[i])
    THEN CHOOSE i \in 1..Len(s) : Test(s[i]) /\ \A j \in 1..(i - 1) : ~Test(s[j])
    ELSE 0

\* node.directives?.find(d => d.name === directiveName)
findDirectiveOnType(node, directiveName) ==
  LET i == FirstIndex(node.directives, LAMBDA d : d.name = directiveName)
  IN  IF i = 0 THEN NoDirective ELSE node.directives[i]

getDirectiveArgumentValue(arg) ==
  IF arg.value # <<>> THEN arg.value ELSE arg.tname

stripQuotes(s) ==
  IF Len(s) >= 2 /\ Head(s) = QUOTE /\ Last(s) = QUOTE THEN SubSeq(s, 2, Len(s) - 1) ELSE s

getDirectiveArg(directive, argName) ==
  LET i == FirstIndex(directive.args, LAMBDA a : a.name = argName)
  IN  IF i = 0 THEN <<>> ELSE stripQuotes(getDirectiveArgumentValue(directive.args[i]))

extractBaseNodeId(nodeId) ==
  IF endsWith(nodeId, NODEID_SUFFIXES.INPUT)
    THEN SubSeq(nodeId, 1, Len(nodeId) - Len(NODEID_SUFFIXES.INPUT))
  ELSE IF endsWith(nodeId, NODEID_SUFFIXES.RESULT)
    THEN SubSeq(nodeId, 1, Len(nodeId) - Len(NODEID_SUFFIXES.RESULT))
  ELSE nodeId

\* A reading that prefers the legacy nodeId to the explicit arguments
IdentityFromArgs_NodeIdFirst(blockId, blockEntityType, nodeId) ==
  IF nodeId # <<>>
    THEN [blockId |-> extractBaseNodeId(nodeId),
          blockEntityType |-> IF endsWith(nodeId, NODEID_SUFFIXES.INPUT) THEN BLOCK_ENTITY_TYPES.INPUT
                              ELSE IF endsWith(nodeId, NODEID_SUFFIXES.RESULT)
                                THEN BLOCK_ENTITY_TYPES.RESULT
                              ELSE BLOCK_ENTITY_TYPES.BLOCK]
  ELSE IF blockId # <<>> /\ blockEntityType # <<>>
    THEN [blockId |-> blockId, blockEntityType |-> blockEntityType]
  ELSE [blockId |-> <<>>, blockEntityType |-> <<>>]

\* The identity the directive's arguments stand for: blockId and
\* blockEntityType when both are there, else the legacy nodeId and its suffix
IdentityFromArgs(blockId, blockEntityType, nodeId) ==
  IF blockId # <<>> /\ blockEntityType # <<>>
    THEN [blockId |-> blockId, blockEntityType |-> blockEntityType]
  ELSE IF nodeId = <<>> THEN [blockId |-> <<>>, blockEntityType |-> <<>>]
  ELSE IF endsWith(nodeId, NODEID_SUFFIXES.INPUT)
    THEN [blockId |-> extractBaseNodeId(nodeId), blockEntityType |-> BLOCK_ENTITY_TYPES.INPUT]
  ELSE IF endsWith(nodeId, NODEID_SUFFIXES.RESULT)
    THEN [blockId |-> extractBaseNodeId(nodeId), blockEntityType |-> BLOCK_ENTITY_TYPES.RESULT]
  ELSE [blockId |-> extractBaseNodeId(nodeId), blockEntityType |-> BLOCK_ENTITY_TYPES.BLOCK]

getBlockIdAndEntityTypeFromDirective(directive) ==
  IdentityFromArgs(getDirectiveArg(directive, DIRECTIVE_ARGS.BLOCK_ID),
                   getDirectiveArg(directive, DIRECTIVE_ARGS.BLOCK_ENTITY_TYPE),
                   getDirectiveArg(directive, DIRECTIVE_ARGS.NODE_ID))

\* The identity a node carries (what every reader of the directive computes)
IdentityOf(node) ==
  getBlockIdAndEntityTypeFromDirective(
    findDirectiveOnType(node, DIRECTIVE_NAMES.EVENT_MODELING_BLOCK))

IsObjectOrInput(node) ==
  node.data \in {"ObjectTypeDefinition", "InputObjectTypeDefinition"}

\* findRelatedTypes: the nodes whose blockId is baseBlockId, in document order
findRelatedTypes(nodes, baseBlockId) ==
  SelectSeq(nodes, LAMBDA n : IsObjectOrInput(n) /\ IdentityOf(n).blockId = baseBlockId)

\* ------------------------------------------------------------ AST mutations
updateFieldTypeReferences(field, oldName, newName) ==
  IF field.type.name = oldName
    THEN [field EXCEPT !.type = [name |-> newName, wrap |-> ""]]
    ELSE field

renameTypeInAST(nodes, oldName, newName) ==
  [i \in 1..Len(nodes) |->
     IF nodes[i].name = oldName
       THEN [nodes[i] EXCEPT !.name = newName]
       ELSE [nodes[i] EXCEPT !.args =
               [k \in 1..Len(nodes[i].args) |->
                  updateFieldTypeReferences(nodes[i].args[k], oldName, newName)]]]

addTypeToAST(nodes, typeName, blockType, blockId, blockEntityType) ==
  LET nodeId == IF blockEntityType = BLOCK_ENTITY_TYPES.BLOCK THEN blockId
                ELSE blockId \o (IF blockEntityType = BLOCK_ENTITY_TYPES.INPUT
                                   THEN NODEID_SUFFIXES.INPUT ELSE NODEID_SUFFIXES.RESULT)
      eventModelingDirective ==
        [name |-> "eventModelingBlock",
         args |-> << CreatedArg("nodeId", Quoted(nodeId)),
                     CreatedArg("blockType", Quoted(<<blockType>>)),
                     CreatedArg("blockId", Quoted(blockId)),
                     CreatedArg("blockEntityType", Quoted(blockEntityType)),
                     CreatedArg("version", <<"1">>) >>]
      fields == << PlainField(<<"id">>, [name |-> <<"ID">>, wrap |-> "!"]) >>
                \o (IF blockType = "event"
                      THEN << PlainField(<<"timestamp">>, [name |-> <<"String">>, wrap |-> "!"]) >>
                      ELSE << >>)
      typeDefinition == [name |-> typeName, data |-> "ObjectTypeDefinition",
                         directives |-> <<eventModelingDirective>>, args |-> fields]
  IN  Append(nodes, typeDefinition)

removeTypeFromAST(nodes, typeName) ==
  SelectSeq(nodes, LAMBDA n : n.name # typeName)

\* --------------------------------------------------------- orphan detector
\* A test that takes every identity for an orphan, active block or not
IsOrphanId_AnyId(blockId, activeBlocks) == blockId # <<>>

\* blockId && !activeBlockIds.has(blockId)
IsOrphanId(blockId, activeBlocks) ==
  blockId # <<>> /\ blockId \notin {activeBlocks[i].id : i \in 1..Len(activeBlocks)}

findOrphanedTypes(nodes, activeBlocks) ==
  SelectSeq(nodes, LAMBDA n : IsObjectOrInput(n) /\ IsOrphanId(IdentityOf(n).blockId, activeBlocks))

\* ------------------------------------------------------ change-plan computer
\* utils/stringUtils toCamelCase: the type name a display title is projected to
toCamelCase(title) ==
  CASE title = "Pay" -> <<"Pay">>
    [] title = "Pay Input" -> <<"Pay", "Input">>
    [] title = "Ship It" -> <<"ShipIt">>
    [] title = "Checkout" -> <<"Checkout">>
    [] OTHER -> <<"Unnamed">>

\* A mapping that gives a block of any kind the single type of an event
getBlockTypeEntries_Single(block) ==
  << [typeName |-> toCamelCase(block.title), blockEntityType |-> BLOCK_ENTITY_TYPES.BLOCK] >>

getBlockTypeEntries(block) ==
  LET typeName == toCamelCase(block.title)
  IN  IF block.type = "command"
        THEN << [typeName |-> typeName \o TYPE_SUFFIXES.INPUT,
                 blockEntityType |-> BLOCK_ENTITY_TYPES.INPUT],
                [typeName |-> typeName \o TYPE_SUFFIXES.COMMAND_RESULT,
                 blockEntityType |-> BLOCK_ENTITY_TYPES.RESULT] >>
        ELSE << [typeName |-> typeName, blockEntityType |-> BLOCK_ENTITY_TYPES.BLOCK] >>

EmptyPlan == [typesToAdd |-> <<>>, typesToRename |-> <<>>, typesToRemove |-> <<>>]

\* `${blockId}\t${blockEntityType}`
IdentityKey(blockId, blockEntityType) == blockId \o <<"\t">> \o blockEntityType

\* The key a related type is stored under in existingByBlockEntityType
\* (none when its directive gives no blockId or no blockEntityType)
KeyOfIdentity(identity) ==
  IF identity.blockId # <<>> /\ identity.blockEntityType # <<>>
    THEN IdentityKey(identity.blockId, identity.blockEntityType)
    ELSE <<>>

\* The largest member of a set of indices, 0 for the empty set
MaxIndex(hits) ==
  IF hits = {} THEN 0 ELSE CHOOSE i \in hits : \A j \in hits : j <= i

\* A lookup that never finds the key
ExistingByKey_None(related, key) == 0

\* existingByBlockEntityType.get(key): the last related type that set the key
ExistingByKey(related, key) ==
  MaxIndex({i \in 1..Len(related) : KeyOfIdentity(IdentityOf(related[i])) = key})

\* One turn of the loop over the entries: rename when a type with the key
\* exists under another name, add when none exists
AnalyzeEntry(e, block, related, changes, key, x) ==
  IF x # 0
    THEN IF related[x].name # e.typeName
           THEN [changes EXCEPT !.typesToRename =
                   Append(@, [oldName |-> related[x].name,
                              newName |-> e.typeName, nodeId |-> key])]
           ELSE changes
    ELSE [changes EXCEPT !.typesToAdd =
            Append(@, [typeName |-> e.typeName, blockType |-> block.type,
                       blockId |-> block.id,
                       blockEntityType |-> e.blockEntityType])]

RECURSIVE AnalyzeEntries(_, _, _, _)
AnalyzeEntries(entries, block, related, changes) ==
  IF entries = <<>> THEN changes
  ELSE AnalyzeEntries(Tail(entries), block, related,
         AnalyzeEntry(Head(entries), block, related, changes,
                      IdentityKey(block.id, Head(entries).blockEntityType),
                      ExistingByKey(related,
                                    IdentityKey(block.id, Head(entries).blockEntityType))))

analyzeBlockSchemaChanges(block, nodes) ==
  AnalyzeEntries(getBlockTypeEntries(block), block, findRelatedTypes(nodes, block.id), EmptyPlan)

\* The reducer of collectBlockChanges: the plan so far with a block's changes
MergeBlockChanges(plan, blockChanges) ==
  [typesToAdd |-> plan.typesToAdd \o blockChanges.typesToAdd,
   typesToRename |-> plan.typesToRename \o blockChanges.typesToRename,
   typesToRemove |-> plan.typesToRemove]

RECURSIVE collectBlockChanges(_, _)
collectBlockChanges(blocks, nodes) ==
  IF blocks = <<>> THEN EmptyPlan
  ELSE MergeBlockChanges(collectBlockChanges(SubSeq(blocks, 1, Len(blocks) - 1), nodes),
                         analyzeBlockSchemaChanges(Last(blocks), nodes))

\* orphanedTypes.map(type => type.name)
TypeNames(types) == [i \in 1..Len(types) |-> types[i].name]

addOrphanedTypesToPlan(plan, nodes, blocks) ==
  [plan EXCEPT !.typesToRemove = @ \o TypeNames(findOrphanedTypes(nodes, blocks))]

\* -------------------------------------------------------- change-plan applier
RECURSIVE applyRenames(_, _)
applyRenames(nodes, renames) ==
  IF renames = <<>> THEN nodes
  ELSE applyRenames(renameTypeInAST(nodes, Head(renames).oldName, Head(renames).newName),
                    Tail(renames))

RECURSIVE applyAdditions(_, _)
applyAdditions(nodes, additions) ==
  IF additions = <<>> THEN nodes
  ELSE applyAdditions(addTypeToAST(nodes, Head(additions).typeName, Head(additions).blockType,
                                   Head(additions).blockId, Head(additions).blockEntityType),
                      Tail(additions))

RECURSIVE applyRemovals(_, _)
applyRemovals(nodes, removals) ==
  IF removals = <<>> THEN nodes
  ELSE applyRemovals(removeTypeFromAST(nodes, Head(removals)), Tail(removals))

\* An applier that removes before it renames and adds
applyChangePlan_RemovalsFirst(nodes, plan) ==
  applyAdditions(applyRenames(applyRemovals(nodes, plan.typesToRemove), plan.typesToRename),
                 plan.typesToAdd)

applyChangePlan(nodes, plan) ==
  applyRemovals(applyAdditions(applyRenames(nodes, plan.typesToRename), plan.typesToAdd),
                plan.typesToRemove)

\* A test that takes every plan for a plan with changes
hasChanges_Always(changePlan) == TRUE

hasChanges(changePlan) ==
  \/ Len(changePlan.typesToAdd) > 0
  \/ Len(changePlan.typesToRename) > 0
  \/ Len(changePlan.typesToRemove) > 0

\* ------------------------------------------------ synchronization controller
VARIABLES
  schema,     \* useState<PassedSchema>: the stored document {code, libraries, source}
  closure,    \* schema.code as captured by the syncSchemaWithBlocks callback of the last render
  dirty,      \* setSchema was called since the last render
  edits,      \* number of editor edits and imports so far
  call,       \* the last handler: its arguments, and what its sync planned and did
  canvas,     \* the block list derived from the nodes of the canvas
  effect      \* "due" when a dependency of the auto-sync effect changed, else "idle"

vars == <<schema, closure, dirty, edits, call, canvas, effect>>

QueryDecl ==
  [kw |-> "type", name |-> <<"Query">>, dirs |-> <<>>,
   fields |-> << [name |-> <<"_empty">>, ty |-> <<"String">>, args |-> <<>>] >>]

defaultSchema == [code |-> <<QueryDecl>>, libraries |-> "", source |-> "outside"]

\* An updateSchema that marks every write as 'outside'
updateSchemaValue_AlwaysOutside(data) ==
  [code |-> data.code, libraries |-> data.libraries, source |-> "outside"]

\* The value updateSchema hands to setSchema: {...data, source}
updateSchemaValue(data) ==
  [code |-> data.code,
   libraries |-> data.libraries,
   source |-> IF data.source = "code" \/ data.source = "tree" THEN data.source ELSE "outside"]

\* changePlan of syncSchemaWithBlocks: collectBlockChanges piped to addOrphanedTypesToPlan
ChangePlanFor(nodes, blocks) ==
  addOrphanedTypesToPlan(collectBlockChanges(blocks, nodes), nodes, blocks)

\* syncSchemaWithBlocks once the plan is known: nothing to store for an empty
\* plan, else the text generated from the tree the plan was applied to
SyncPlanned(nodes, changePlan) ==
  IF hasChanges(changePlan)
    THEN [outcome |-> "stored", plan |-> changePlan,
          code |-> generateSchemaFromAST(applyChangePlan(nodes, changePlan))]
    ELSE [outcome |-> "noop", plan |-> changePlan, code |-> <<>>]

\* syncSchemaWithBlocks once the text is parsed: the catch branch when the
\* parse threw
SyncParsed(ast, blocks) ==
  IF ~ast.ok
    THEN [outcome |-> "error", plan |-> EmptyPlan, code |-> <<>>]
    ELSE SyncPlanned(ast.nodes, ChangePlanFor(ast.nodes, blocks))

\* The body of syncSchemaWithBlocks on the text its closure holds: the plan it
\* computes and, when the plan is not empty, the text it hands to updateSchema.
SyncRun(code, blocks) == SyncParsed(parseSchemaToAST(code), blocks)

\* A store that keeps the provenance of the document the sync found
SyncStore_KeepSource(stored, run) ==
  IF run.outcome = "stored"
    THEN [code |-> run.code, libraries |-> "undefined", source |-> stored.source]
    ELSE stored

\* The document after syncSchemaWithBlocks ran while `stored` was stored
SyncStore(stored, run) ==
  IF run.outcome = "stored"
    THEN updateSchemaValue([source |-> "outside", code |-> run.code, libraries |-> "undefined"])
    ELSE stored

\* ------------------------------------------------------------------- inputs
BlockIds == {<<"b1">>, <<"b2">>}

\* The canvas blocks: b1 is a command node, b2 an event node; a node keeps its
\* id and its type while its label is edited.
Blocks ==
       [id : {<<"b1">>}, title : {"Pay", "Ship It"}, type : {"command"}]
  \cup [id : {<<"b2">>}, title : {"Pay", "Pay Input"}, type : {"event"}]

DistinctIds(blocks) ==
  \A i, j \in 1..Len(blocks) : blocks[i].id = blocks[j].id => i = j

\* The block lists the canvas derives from its nodes: node ids are unique, and
\* the list is in node order (b1 was created before b2)
BlockLists ==
  {bs \in UNION {[1..n -> Blocks] : n \in 0..Cardinality(BlockIds)} :
     DistinctIds(bs) /\ (Len(bs) = 2 => bs[1].id = <<"b1">>)}

HandField == [name |-> <<"note">>, ty |-> <<"String">>, args |-> <<>>]

UserTypeNames == {<<"Pay">>, <<"Audit">>}

\* A hand-written type without identity directive; it refers to the type Pay
UserDecl(n) ==
  [kw |-> "type", name |-> n, dirs |-> <<>>,
   fields |-> << [name |-> <<"ref">>, ty |-> <<"[", "Pay", "!", "]", "!">>, args |-> <<>>] >>]

HasField(decl, f) == \E k \in 1..Len(decl.fields) : decl.fields[k].name = f

\* What the editor can emit from the text it shows: a field added by hand to
\* a type that carries a directive (in the code pane, in the tree, or pasted),
\* a hand-written type, or text that is no schema (typed in the code pane)
EditorChanges(code) ==
     {[code |-> [code EXCEPT ![i].fields = Append(@, HandField)], source |-> src] :
        i \in {k \in 1..Len(code) : /\ code[k].kw = "type"
                                    /\ code[k].dirs # <<>>
                                    /\ ~HasField(code[k], HandField.name)},
        src \in {"code", "tree", "other"}}
  \cup {[code |-> Append(code, UserDecl(n)), source |-> "tree"] : n \in UserTypeNames}
  \cup {[code |-> <<Garbage>>, source |-> "code"], [code |-> <<>>, source |-> "code"]}

\* The files that are imported: {schema text, blocks, legacy blockRegistry}.
\* An exported model whose event type (block b2) was customised by hand, the
\* same with the legacy registry as well, a hand-written schema with a list
\* of blocks, and a schema without blocks.
ExportedEventDecl ==
  LET t == generateSchemaFromAST(
             addTypeToAST(<<>>, <<"Pay">>, "event", <<"b2">>, BLOCK_ENTITY_TYPES.BLOCK))[1]
  IN  [t EXCEPT !.fields = Append(@, HandField)]

EventB2 == [id |-> <<"b2">>, title |-> "Pay", type |-> "event"]

CommandB1 == [id |-> <<"b1">>, title |-> "Pay", type |-> "command"]

ImportFiles ==
  { [code |-> <<QueryDecl, ExportedEventDecl>>, blocks |-> <<EventB2>>, blockRegistry |-> <<>>],
    [code |-> <<QueryDecl, ExportedEventDecl>>, blocks |-> <<EventB2>>,
     blockRegistry |-> <<EventB2>>],
    [code |-> <<QueryDecl, UserDecl(<<"Audit">>)>>, blocks |-> <<CommandB1, EventB2>>,
     blockRegistry |-> <<>>],
    [code |-> <<QueryDecl, UserDecl(<<"Audit">>)>>, blocks |-> <<>>, blockRegistry |-> <<>>] }

\* ------------------------------------------------------------------ actions
NoCall == [op |-> "init", blocks |-> <<>>, source |-> "", read |-> <<>>,
           stored |-> defaultSchema, plan |-> EmptyPlan, outcome |-> "none",
           repeat |-> FALSE, prev |-> [known |-> FALSE, blocks |-> <<>>]]

\* The block list of the most recent syncSchemaWithBlocks call since the
\* document was last replaced by an import
LastSynced ==
  IF call.op = "sync" THEN [known |-> TRUE, blocks |-> call.blocks]
  ELSE IF call.op = "import" THEN NoCall.prev
  ELSE call.prev

Init ==
  /\ schema = defaultSchema
  /\ closure = defaultSchema.code
  /\ dirty = FALSE
  /\ edits = 0
  /\ call = NoCall
  /\ canvas = <<>>
  /\ effect = "idle"

\* React renders after a state change: the callbacks are re-created and
\* syncSchemaWithBlocks captures the stored schema.code
Render ==
  /\ dirty
  /\ closure' = schema.code
  /\ dirty' = FALSE
  /\ UNCHANGED <<schema, edits, call, canvas, effect>>

\* GraphQLEditor setSchema / paste: updateSchema(data)
updateSchema ==
  /\ ~dirty
  /\ edits < MaxEdits
  /\ \E change \in EditorChanges(schema.code) :
       LET data == [code |-> change.code, libraries |-> "scalar Date", source |-> change.source]
       IN  /\ schema' = updateSchemaValue(data)
           /\ call' = [NoCall EXCEPT !.op = "updateSchema", !.source = change.source,
                                      !.prev = LastSynced]
  /\ dirty' = TRUE
  /\ edits' = edits + 1
  /\ UNCHANGED <<closure, canvas, effect>>

\* An effect (canvas auto-sync, schema editor modal) calls syncSchemaWithBlocks(blocks)
syncSchemaWithBlocks ==
  /\ ~dirty
  /\ \E blocks \in BlockLists :
       \E run \in {SyncRun(closure, blocks)} :
         /\ schema' = SyncStore(schema, run)
         /\ dirty' = (run.outcome = "stored")
         /\ call' = [op |-> "sync", blocks |-> blocks, source |-> "", read |-> closure,
                     stored |-> schema, plan |-> run.plan, outcome |-> run.outcome,
                     repeat |-> (call.op = "sync" /\ call.blocks = blocks),
                     prev |-> LastSynced]
  /\ UNCHANGED <<closure, edits, canvas, effect>>

\* importSchemaFromData: updateSchema(imported schema), then
\* syncSchemaWithBlocks(blocks ++ blockRegistry) when that list is not empty,
\* both from the callbacks of the last render
importSchemaFromData ==
  /\ ~dirty
  /\ edits < MaxEdits
  /\ \E importedData \in ImportFiles :
       LET typedSchema == [code |-> importedData.code, libraries |-> "scalar Date",
                           source |-> "outside"]
           imported == updateSchemaValue(typedSchema)
           importedBlocks == importedData.blocks \o importedData.blockRegistry
       IN  \E run \in {IF Len(importedBlocks) > 0
                          THEN SyncRun(closure, importedBlocks)
                          ELSE [outcome |-> "none", plan |-> EmptyPlan, code |-> <<>>]} :
                 /\ schema' = SyncStore(imported, run)
                 /\ call' = [op |-> "import", blocks |-> importedBlocks, source |-> "outside",
                             read |-> closure, stored |-> imported, plan |-> run.plan,
                             outcome |-> run.outcome, repeat |-> FALSE,
                             prev |-> NoCall.prev]
  /\ dirty' = TRUE
  /\ edits' = edits + 1
  /\ UNCHANGED <<closure, canvas, effect>>

Next ==
  \/ Render
  \/ updateSchema
  \/ syncSchemaWithBlocks
  \/ importSchemaFromData

Spec == Init /\ [][Next]_vars

\* ------------------------------------------------- the utilities on their own
\* createEventModelingDirective(nodeId, blockType): the values are stored as
\* they are given, without quotes
createEventModelingDirective(nodeId, blockType) ==
  [name |-> DIRECTIVE_NAMES.EVENT_MODELING_BLOCK,
   args |-> << CreatedArg("nodeId", nodeId),
               CreatedArg("blockType", <<blockType>>),
               CreatedArg("blockId", extractBaseNodeId(nodeId)),
               CreatedArg("blockEntityType",
                          IF endsWith(nodeId, NODEID_SUFFIXES.INPUT) THEN BLOCK_ENTITY_TYPES.INPUT
                          ELSE IF endsWith(nodeId, NODEID_SUFFIXES.RESULT)
                            THEN BLOCK_ENTITY_TYPES.RESULT
                          ELSE BLOCK_ENTITY_TYPES.BLOCK),
               CreatedArg("version", <<"1">>) >>]

\* A write that keeps the directives of the same name
addDirectiveToType_Append(node, directive) ==
  [node EXCEPT !.directives = Append(node.directives, directive)]

\* addDirectiveToType: drop the directives of the same name, append the new one
addDirectiveToType(node, directive) ==
  [node EXCEPT !.directives =
     Append(SelectSeq(node.directives, LAMBDA d : d.name # directive.name), directive)]

\* updateTypeDirective(node, nodeId, blockType, newTypeName?): <<>> stands for
\* an omitted newTypeName
updateTypeDirective(node, nodeId, blockType, newTypeName) ==
  IF newTypeName # <<>>
    THEN [addDirectiveToType(node, createEventModelingDirective(nodeId, blockType))
            EXCEPT !.name = newTypeName]
    ELSE addDirectiveToType(node, createEventModelingDirective(nodeId, blockType))

\* The text of an identity directive with the given arguments, each a string
\* literal; <<>> stands for an argument that is left out
DirectiveText(blockId, blockEntityType, nodeId) ==
  [name |-> DIRECTIVE_NAMES.EVENT_MODELING_BLOCK,
   args |-> (IF nodeId = <<>> THEN <<>> ELSE <<[name |-> "nodeId", lit |-> Quoted(nodeId)]>>)
            \o <<[name |-> "blockType", lit |-> Quoted(<<"event">>)]>>
            \o (IF blockId = <<>> THEN <<>> ELSE <<[name |-> "blockId", lit |-> Quoted(blockId)]>>)
            \o (IF blockEntityType = <<>> THEN <<>>
                ELSE <<[name |-> "blockEntityType", lit |-> Quoted(blockEntityType)]>>)]

IdField == [name |-> <<"id">>, ty |-> <<"ID", "!">>, args |-> <<>>]

TypeText(kw, n, dirs) == [kw |-> kw, name |-> n, dirs |-> dirs, fields |-> <<IdField>>]

\* A schema whose Query refers to other types in a field type and in a field
\* argument: `pay(input: PayInput!): [Pay!]!`
RefsText ==
  << [QueryDecl EXCEPT !.fields =
        Append(@, [name |-> <<"pay">>, ty |-> <<"[", "Pay", "!", "]", "!">>,
                   args |-> <<[name |-> <<"input">>, ty |-> <<"PayInput", "!">>]>>])],
     ExportedEventDecl,
     TypeText("input", <<"PayInput">>, <<>>) >>

\* A schema of an older version of the app: identities written as nodeId
\* only, a directive without any identity, a directive on an enum, a type
\* with another directive and with explicit and legacy arguments that
\* disagree, and a type that carries the directive twice
LegacyText ==
  << QueryDecl,
     TypeText("type", <<"LegacyIn">>, <<DirectiveText(<<>>, <<>>, <<"b1", "-input">>)>>),
     TypeText("type", <<"LegacyOut">>, <<DirectiveText(<<>>, <<>>, <<"b1", "-result">>)>>),
     TypeText("type", <<"LegacyEv">>, <<DirectiveText(<<>>, <<>>, <<"b2">>)>>),
     TypeText("type", <<"NoId">>, <<DirectiveText(<<>>, <<>>, <<>>)>>),
     TypeText("enum", <<"Kind">>, <<DirectiveText(<<"b3">>, <<"block">>, <<>>)>>),
     TypeText("input", <<"Keyed">>,
              << [name |-> "key", args |-> <<[name |-> "fields", lit |-> Quoted(<<"id">>)]>>],
                 DirectiveText(<<"b3">>, <<"result">>, <<"b1", "-input">>) >>),
     TypeText("type", <<"Twice">>,
              << DirectiveText(<<>>, <<>>, <<"b3">>), DirectiveText(<<>>, <<>>, <<"b3">>) >>) >>

\* The documents the utilities are applied to
UnitTexts == {<<>>, defaultSchema.code, RefsText, LegacyText}

\* Event blocks whose titles may collide
UnitBlocks == [id : BlockIds, title : {"Pay", "Checkout"}, type : {"event"}]

UnitBlockLists ==
  {bs \in UNION {[1..n -> UnitBlocks] : n \in 0..Cardinality(BlockIds)} :
     DistinctIds(bs) /\ (Len(bs) = 2 => bs[1].id = <<"b1">>)}

\* The record of a call of a utility
UnitCall(op, args, result) ==
  [op |-> op, args |-> args, result |-> result, prev |-> LastSynced]

\* The utilities are called on the document a handler has left (a call of a
\* utility changes nothing, so calling one after another reaches no new state)
AfterHandler == ~dirty /\ call.op \in {"init", "sync"}

UnitInit ==
  /\ schema \in {[defaultSchema EXCEPT !.code = text] : text \in UnitTexts}
  /\ closure = schema.code
  /\ dirty = FALSE
  /\ edits = 0
  /\ call = NoCall
  /\ canvas = <<>>
  /\ effect = "idle"

\* syncSchemaWithBlocks(blocks) called by an effect, for event blocks
UnitSync ==
  /\ ~dirty
  /\ \E blocks \in UnitBlockLists :
       \E run \in {SyncRun(closure, blocks)} :
         /\ schema' = SyncStore(schema, run)
         /\ dirty' = (run.outcome = "stored")
         /\ call' = [op |-> "sync", blocks |-> blocks, source |-> "", read |-> closure,
                     stored |-> schema, plan |-> run.plan, outcome |-> run.outcome,
                     repeat |-> (call.op = "sync" /\ call.blocks = blocks),
                     prev |-> LastSynced]
  /\ UNCHANGED <<closure, edits, canvas, effect>>

\* renameTypeInAST(ast, oldName, newName) for a type the document defines
RenameCall ==
  /\ AfterHandler /\ Parses(schema.code)
  /\ \E i \in 1..Len(schema.code) :
       \E args \in {[ast |-> parseSchemaToAST(schema.code).nodes,
                      oldName |-> schema.code[i].name, newName |-> <<"Renamed">>]} :
         call' = UnitCall("renameTypeInAST", args,
                          renameTypeInAST(args.ast, args.oldName, args.newName))
  /\ UNCHANGED <<schema, closure, dirty, edits, canvas, effect>>

\* findOrphanedTypes(ast, activeBlocks)
OrphansCall ==
  /\ AfterHandler /\ Parses(schema.code)
  /\ \E blocks \in UnitBlockLists :
       \E args \in {[ast |-> parseSchemaToAST(schema.code).nodes, activeBlocks |-> blocks]} :
         call' = UnitCall("findOrphanedTypes", args,
                          findOrphanedTypes(args.ast, args.activeBlocks))
  /\ UNCHANGED <<schema, closure, dirty, edits, canvas, effect>>

\* getBlockTypeEntries(block) for a block of any kind
EntriesCall ==
  /\ AfterHandler
  /\ \E block \in [id : BlockIds, title : {"Pay", "Pay Input", "Checkout"},
                     type : {"command", "event", "view"}] :
       call' = UnitCall("getBlockTypeEntries", [block |-> block], getBlockTypeEntries(block))
  /\ UNCHANGED <<schema, closure, dirty, edits, canvas, effect>>

\* The directives getBlockIdAndEntityTypeFromDirective is given: as parsed
\* from a text, as addTypeToAST builds them (quoted literals) and as
\* createEventModelingDirective builds them
UnitDirectives ==
  {NoDirective}
  \cup {ParseDirective(DirectiveText(b, e, n)) :
          b \in {<<>>, <<"b3">>}, e \in {<<>>, <<"result">>},
          n \in {<<>>, <<"b1">>, <<"b1", "-input">>, <<"b1", "-result">>}}
  \cup {Last(addTypeToAST(<<>>, <<"Pay">>, "command", <<"b1">>, e)).directives[1] :
          e \in {BLOCK_ENTITY_TYPES.INPUT, BLOCK_ENTITY_TYPES.BLOCK}}
  \cup {createEventModelingDirective(n, "command") : n \in {<<"b1">>, <<"b1", "-result">>}}

\* getBlockIdAndEntityTypeFromDirective(directive)
IdentityCall ==
  /\ AfterHandler
  /\ \E directive \in UnitDirectives :
       call' = UnitCall("getBlockIdAndEntityTypeFromDirective", [directive |-> directive],
                        getBlockIdAndEntityTypeFromDirective(directive))
  /\ UNCHANGED <<schema, closure, dirty, edits, canvas, effect>>

\* updateTypeDirective(node, nodeId, blockType, newTypeName?) on a type of the document
DirectiveCall ==
  /\ AfterHandler /\ Parses(schema.code)
  /\ \E i \in 1..Len(schema.code), nodeId \in {<<"b4">>, <<"b4", "-input">>},
        newTypeName \in {<<>>, <<"Renamed">>} :
       \E args \in {[node |-> parseSchemaToAST(schema.code).nodes[i], nodeId |-> nodeId,
                      blockType |-> "command", newTypeName |-> newTypeName]} :
         call' = UnitCall("updateTypeDirective", args,
                          updateTypeDirective(args.node, args.nodeId, args.blockType,
                                              args.newTypeName))
  /\ UNCHANGED <<schema, closure, dirty, edits, canvas, effect>>

\* Change plans about a type named n of the document in which the order of
\* application shows: a rename whose new name is removed, an addition that is
\* removed, a rename next to an addition of the old name, all three lists at
\* once, two renames in a chain, and two additions
Renaming(oldName, newName) == [oldName |-> oldName, newName |-> newName, nodeId |-> <<"b4">>]

Adding(typeName) ==
  [typeName |-> typeName, blockType |-> "event", blockId |-> <<"b4">>,
   blockEntityType |-> BLOCK_ENTITY_TYPES.BLOCK]

UnitPlans(n) ==
  { [typesToRename |-> <<Renaming(n, <<"Renamed">>)>>, typesToAdd |-> <<>>,
     typesToRemove |-> <<<<"Renamed">>>>],
    [typesToRename |-> <<>>, typesToAdd |-> <<Adding(n)>>, typesToRemove |-> <<n>>],
    [typesToRename |-> <<Renaming(n, <<"Renamed">>)>>, typesToAdd |-> <<Adding(n)>>,
     typesToRemove |-> <<>>],
    [typesToRename |-> <<Renaming(n, <<"Renamed">>)>>, typesToAdd |-> <<Adding(<<"Renamed">>)>>,
     typesToRemove |-> <<n>>],
    [typesToRename |-> <<Renaming(n, <<"Renamed">>), Renaming(<<"Renamed">>, <<"Again">>)>>,
     typesToAdd |-> <<>>, typesToRemove |-> <<>>],
    [typesToRename |-> <<>>, typesToAdd |-> <<Adding(<<"Renamed">>), Adding(<<"Again">>)>>,
     typesToRemove |-> <<>>] }

\* applyChangePlan(ast, plan) on the tree of the document
ApplyCall ==
  /\ AfterHandler /\ Parses(schema.code)
  /\ \E i \in 1..Len(schema.code) :
       \E plan \in UnitPlans(schema.code[i].name) :
         \E args \in {[ast |-> parseSchemaToAST(schema.code).nodes, plan |-> plan]} :
           call' = UnitCall("applyChangePlan", args, applyChangePlan(args.ast, args.plan))
  /\ UNCHANGED <<schema, closure, dirty, edits, canvas, effect>>

\* The texts the safe parser is given: empty, whitespace only, malformed
\* (garbage alone and after a declaration), and the stored text
SafeTexts(code) ==
  {<<>>, <<Blank>>, <<Blank, Blank>>, <<Garbage>>, <<QueryDecl, Garbage>>, code}

\* parseSchemaToASTSafe(schema)
SafeParseCall ==
  /\ AfterHandler
  /\ \E text \in SafeTexts(schema.code) :
       call' = UnitCall("parseSchemaToASTSafe", [schema |-> text], parseSchemaToASTSafe(text))
  /\ UNCHANGED <<schema, closure, dirty, edits, canvas, effect>>

\* The nodeId of a type of a block: the block id, with the suffix of the role
\* for the input and the result type of a command
NodeIdFor(blockId, blockEntityType) ==
  IF blockEntityType = BLOCK_ENTITY_TYPES.BLOCK THEN blockId
  ELSE IF blockEntityType = BLOCK_ENTITY_TYPES.INPUT THEN blockId \o NODEID_SUFFIXES.INPUT
  ELSE blockId \o NODEID_SUFFIXES.RESULT

\* The identity directive a writer writes for (blockId, blockEntityType)
WrittenDirective(writer, blockId, blockEntityType) ==
  IF writer = "addTypeToAST"
    THEN Last(addTypeToAST(<<>>, <<"Pay">>, "command", blockId, blockEntityType)).directives[1]
    ELSE createEventModelingDirective(NodeIdFor(blockId, blockEntityType), "command")

\* Block ids, among them ids that end in a suffix of a nodeId
RoundTripIds == {<<"b1">>, <<"b1", "-input">>, <<"b1", "-result">>}

\* An identity is written by a writer and read back from the directive
RoundTripCall ==
  /\ AfterHandler
  /\ \E writer \in {"addTypeToAST", "createEventModelingDirective"}, blockId \in RoundTripIds,
        blockEntityType \in {BLOCK_ENTITY_TYPES.BLOCK, BLOCK_ENTITY_TYPES.INPUT,
                             BLOCK_ENTITY_TYPES.RESULT} :
       call' = UnitCall("roundTrip",
                        [writer |-> writer, blockId |-> blockId,
                         blockEntityType |-> blockEntityType],
                        getBlockIdAndEntityTypeFromDirective(
                          WrittenDirective(writer, blockId, blockEntityType)))
  /\ UNCHANGED <<schema, closure, dirty, edits, canvas, effect>>

UnitNext ==
  \/ Render
  \/ RoundTripCall
  \/ SafeParseCall
  \/ ApplyCall
  \/ UnitSync
  \/ RenameCall
  \/ OrphansCall
  \/ EntriesCall
  \/ IdentityCall
  \/ DirectiveCall

UnitSpec == UnitInit /\ [][UnitNext]_vars

\* ------------------------------------------- the canvas and its auto-sync
\* bs without its k-th block
Without(bs, k) == SubSeq(bs, 1, k - 1) \o SubSeq(bs, k + 1, Len(bs))

\* One change of the canvas: a block is added, a block is removed, or the
\* label of a block is edited
SingleChange(old, new) ==
  \/ /\ Len(new) = Len(old) + 1 /\ \E k \in 1..Len(new) : Without(new, k) = old
  \/ /\ Len(old) = Len(new) + 1 /\ \E k \in 1..Len(old) : Without(old, k) = new
  \/ /\ Len(new) = Len(old)
     /\ \E k \in 1..Len(old) : /\ new[k].title # old[k].title
                                /\ new = [old EXCEPT ![k].title = new[k].title]

\* Nothing is pending: React has rendered and the effect has run
Quiescent == ~dirty /\ effect = "idle"

\* The user changes the canvas; `nodes` is a dependency of the effect
setNodes ==
  /\ Quiescent
  /\ \E blocks \in BlockLists : SingleChange(canvas, blocks) /\ canvas' = blocks
  /\ effect' = "due"
  /\ UNCHANGED <<schema, closure, dirty, edits, call>>

\* The user edits the schema in the editor: updateSchema(data)
editSchema ==
  /\ Quiescent
  /\ edits < MaxEdits
  /\ \E change \in EditorChanges(schema.code) :
       /\ schema' = updateSchemaValue([code |-> change.code, libraries |-> "scalar Date",
                                       source |-> change.source])
       /\ call' = [NoCall EXCEPT !.op = "updateSchema", !.source = change.source,
                                  !.prev = LastSynced]
  /\ dirty' = TRUE
  /\ edits' = edits + 1
  /\ UNCHANGED <<closure, canvas, effect>>

\* React renders after setSchema: syncSchemaWithBlocks is re-created when
\* schema.code changed (useCallback), and the effect that depends on it is due
renderApp ==
  /\ dirty
  /\ closure' = schema.code
  /\ dirty' = FALSE
  /\ effect' = IF schema.code # closure THEN "due" ELSE effect
  /\ UNCHANGED <<schema, edits, call, canvas>>

\* The auto-sync effect of AppContent: syncSchemaWithBlocks(blocks) if
\* blocks.length > 0
autoSync ==
  /\ ~dirty /\ effect = "due"
  /\ effect' = "idle"
  /\ IF Len(canvas) > 0
       THEN \E run \in {SyncRun(closure, canvas)} :
              /\ schema' = SyncStore(schema, run)
              /\ dirty' = (run.outcome = "stored")
              /\ call' = [op |-> "sync", blocks |-> canvas, source |-> "", read |-> closure,
                          stored |-> schema, plan |-> run.plan, outcome |-> run.outcome,
                          repeat |-> (call.op = "sync" /\ call.blocks = canvas),
                          prev |-> LastSynced]
       ELSE UNCHANGED <<schema, dirty, call>>
  /\ UNCHANGED <<closure, edits, canvas>>

AutoNext ==
  \/ setNodes
  \/ editSchema
  \/ renderApp
  \/ autoSync

\* The steps of React's own scheduling, told by what they do to dirty and to
\* effect: the pending render (only renderApp clears dirty) and the run of the
\* due effect (only autoSync sets effect back to idle)
RenderStep == dirty /\ dirty' = FALSE

EffectStep == ~dirty /\ effect = "due" /\ effect' = "idle"

\* React runs a pending render and a due effect
AutoSpec == Init /\ [][AutoNext]_vars /\ WF_dirty(RenderStep) /\ WF_effect(EffectStep)

\* ------------------------------------------------------------------ claims
\* What the last sync read and what is stored now, as trees
ReadNodes == parseSchemaToAST(call.read).nodes

StoredNodes == parseSchemaToAST(schema.code).nodes

\* The last handler ran syncSchemaWithBlocks (on its own or inside an import)
SyncRan == call.op \in {"sync", "import"} /\ call.outcome # "none"

\* The last handler was a syncSchemaWithBlocks call of an effect that did not throw
SyncOK == call.op = "sync" /\ call.outcome \in {"stored", "noop"}

HasIdentityDirective(node) ==
  findDirectiveOnType(node, DIRECTIVE_NAMES.EVENT_MODELING_BLOCK) # NoDirective

ActiveIds(blocks) == {blocks[i].id : i \in 1..Len(blocks)}

\* The (typeName, blockId, entityRole) triples a block list requires
Required(blocks) ==
  UNION {{[typeName |-> e.typeName, blockId |-> blocks[i].id,
           blockEntityType |-> e.blockEntityType] :
            e \in SeqToSet(getBlockTypeEntries(blocks[i]))} : i \in 1..Len(blocks)}

Carrying(nodes, blockId, blockEntityType) ==
  {j \in 1..Len(nodes) :
     IdentityOf(nodes[j]) = [blockId |-> blockId, blockEntityType |-> blockEntityType]}

\* C1: a second sync with the same block list (ids pairwise distinct, no
\* updateSchema in between) computes an empty plan and leaves the stored
\* document as the first sync left it.
C1_SecondSyncChangesNothing ==
  (call.op = "sync" /\ call.repeat /\ DistinctIds(call.blocks))
    => (~hasChanges(call.plan) /\ schema = call.stored)

\* C2: a sync that stores a document computed it from the text of the document
\* that was stored when the sync ran, never from an older snapshot.
C2_SyncReadsLatestStored ==
  (SyncRan /\ call.outcome = "stored") => call.read = call.stored.code

\* A type without identity directive as it must be after a sync: same name,
\* kind and fields, a field type changed only by the rewrite of a rename
SameUserType(before, after) ==
  /\ after.name = before.name
  /\ after.data = before.data
  /\ after.directives = before.directives
  /\ Len(after.args) = Len(before.args)
  /\ \A k \in 1..Len(before.args) :
       /\ after.args[k].name = before.args[k].name
       /\ \/ after.args[k].type = before.args[k].type
          \/ \E r \in SeqToSet(call.plan.typesToRename) :
               /\ before.args[k].type.name = r.oldName
               /\ after.args[k].type.name = r.newName

\* C3: every type without identity directive that sync read is in the stored
\* document after the sync, under its name and with its fields, also when a
\* managed type of the same name is renamed or removed.
C3_UserTypesUntouched ==
  SyncOK =>
    \A i \in 1..Len(ReadNodes) :
      ~HasIdentityDirective(ReadNodes[i]) =>
        \E j \in 1..Len(StoredNodes) : SameUserType(ReadNodes[i], StoredNodes[j])

\* C4: updateSchema stores the source it is given when that is 'code' or
\* 'tree' and 'outside' otherwise; the document read back right after
\* updateSchema({source: 'code'}) has source 'code'.
C4_ProvenancePreserved ==
  call.op = "updateSchema" =>
    schema.source = (IF call.source \in {"code", "tree"} THEN call.source ELSE "outside")

C4_Witness ==
  call.op = "updateSchema" /\ call.source = "code" /\ schema.source = "code"

C6_ManagedTypesMatchBlocks ==
  (SyncOK /\ DistinctIds(call.blocks)) =>
    /\ \A e \in Required(call.blocks) :
         /\ Cardinality(Carrying(StoredNodes, e.blockId, e.blockEntityType)) = 1
         /\ \A j \in Carrying(StoredNodes, e.blockId, e.blockEntityType) :
              StoredNodes[j].name = e.typeName
    /\ \A j \in 1..Len(StoredNodes) :
         IdentityOf(StoredNodes[j]).blockId \in {<<>>} \cup ActiveIds(call.blocks)

\* The last sync got the list of the sync before it with the title of the
\* command block at k changed and nothing else
OnlyTitleChanged(k) ==
  /\ call.op = "sync" /\ call.outcome = "stored"
  /\ call.prev.known /\ Len(call.prev.blocks) = Len(call.blocks)
  /\ k \in 1..Len(call.blocks)
  /\ call.blocks[k].type = "command"
  /\ call.blocks[k].title # call.prev.blocks[k].title
  /\ call.prev.blocks = [call.blocks EXCEPT ![k].title = call.prev.blocks[k].title]

RoleSuffix(role) ==
  IF role = BLOCK_ENTITY_TYPES.INPUT THEN TYPE_SUFFIXES.INPUT ELSE TYPE_SUFFIXES.COMMAND_RESULT

\* C7: a command block synced again with only its title changed keeps its two
\* type nodes: they are renamed to <New>Input and <New>CommandResult, carry the
\* same directive (blockId) and fields, and no type of the old names remains.
C7_IdentityStableUnderRename ==
  \A k \in 1..Len(call.blocks) :
    OnlyTitleChanged(k) =>
      LET id == call.blocks[k].id
          new == toCamelCase(call.blocks[k].title)
          old == toCamelCase(call.prev.blocks[k].title)
      IN  /\ \A role \in {BLOCK_ENTITY_TYPES.INPUT, BLOCK_ENTITY_TYPES.RESULT} :
               /\ Carrying(ReadNodes, id, role) # {}
               /\ \A i \in Carrying(ReadNodes, id, role) :
                    /\ i \in Carrying(StoredNodes, id, role)
                    /\ StoredNodes[i] = [ReadNodes[i] EXCEPT !.name = new \o RoleSuffix(role)]
          /\ \A j \in 1..Len(StoredNodes) :
               StoredNodes[j].name \notin {old \o TYPE_SUFFIXES.INPUT,
                                           old \o TYPE_SUFFIXES.COMMAND_RESULT}

\* C8: after a sync that did not throw no managed type carries the id of a
\* block that is not in the list, and every managed type of a block that is
\* in the list is still there.
C8_OrphanCleanup ==
  (SyncOK /\ DistinctIds(call.blocks)) =>
    /\ \A j \in 1..Len(StoredNodes) :
         IdentityOf(StoredNodes[j]).blockId \in {<<>>} \cup ActiveIds(call.blocks)
    /\ \A i \in 1..Len(ReadNodes) :
         IdentityOf(ReadNodes[i]).blockId \in ActiveIds(call.blocks) =>
           \E j \in 1..Len(StoredNodes) :
             IdentityOf(StoredNodes[j]) = IdentityOf(ReadNodes[i])

\* The last sync got the list of the sync before it with one new block added at k
ExtendsBy(k) ==
  /\ SyncOK
  /\ call.prev.known /\ Len(call.blocks) = Len(call.prev.blocks) + 1
  /\ k \in 1..Len(call.blocks)
  /\ call.prev.blocks = SubSeq(call.blocks, 1, k - 1) \o SubSeq(call.blocks, k + 1, Len(call.blocks))
  /\ call.blocks[k].id \notin ActiveIds(call.prev.blocks)

\* C9: a sync with the previously synced list extended by one new block plans
\* only additions for the new block, and every managed type that existed keeps
\* its name and all its fields.
C9_AdditionIsNonDestructive ==
  \A k \in 1..Len(call.blocks) :
    ExtendsBy(k) =>
      /\ call.plan.typesToRename = <<>>
      /\ call.plan.typesToRemove = <<>>
      /\ \A a \in SeqToSet(call.plan.typesToAdd) : a.blockId = call.blocks[k].id
      /\ \A i \in 1..Len(ReadNodes) :
           HasIdentityDirective(ReadNodes[i]) =>
             \E j \in 1..Len(StoredNodes) : StoredNodes[j] = ReadNodes[i]

\* C10: a type that sync renames is in the stored document under its new name
\* with the fields and directives it had before.
C10_RenamePreservesContent ==
  SyncOK =>
    \A r \in SeqToSet(call.plan.typesToRename) :
      \A i \in 1..Len(ReadNodes) :
        (/\ ReadNodes[i].name = r.oldName
         /\ IdentityOf(ReadNodes[i]).blockId # <<>>
         /\ IdentityKey(IdentityOf(ReadNodes[i]).blockId,
                        IdentityOf(ReadNodes[i]).blockEntityType) = r.nodeId)
        => \E j \in 1..Len(StoredNodes) :
             StoredNodes[j] = [ReadNodes[i] EXCEPT !.name = r.newName]

\* No two nodes carry the same (blockId, blockEntityType)
UniqueIdentities(nodes) ==
  \A i, j \in 1..Len(nodes) :
    (IdentityOf(nodes[i]).blockId # <<>> /\ IdentityOf(nodes[i]) = IdentityOf(nodes[j])) => i = j

\* C11: a sync with pairwise distinct block ids on a document whose identity
\* keys are unique stores a document whose identity keys are unique.
C11_IdentityKeysUnique ==
  (SyncOK /\ DistinctIds(call.blocks) /\ UniqueIdentities(ReadNodes)) =>
    UniqueIdentities(StoredNodes)

C11_Witness ==
  /\ SyncOK /\ call.outcome = "stored" /\ Len(call.blocks) = 2
  /\ UniqueIdentities(ReadNodes)
  /\ \E i \in 1..Len(ReadNodes) : IdentityOf(ReadNodes[i]).blockId # <<>>
  /\ Len(call.plan.typesToAdd) >= 2
  /\ Cardinality({j \in 1..Len(StoredNodes) : IdentityOf(StoredNodes[j]).blockId # <<>>}) = 3

\* The text that syncing the imported list against the imported text gives
SyncedImport ==
  IF SyncRun(call.stored.code, call.blocks).outcome = "stored"
    THEN SyncRun(call.stored.code, call.blocks).code
    ELSE call.stored.code

\* C12: when an import of text S and a non-empty block list B completes, the
\* stored text is the result of syncing B against S.
C12_ImportSyncsAgainstImported ==
  (call.op = "import" /\ call.blocks # <<>>) => schema.code = SyncedImport

\* C13: a sync whose plan has no additions, renames or removals writes
\* nothing: text, libraries and source stay what they were before the call.
C13_NoSpuriousWrites ==
  (SyncRan /\ call.outcome # "error" /\ call.plan = EmptyPlan) => schema = call.stored

C13_Witness ==
  /\ call.op = "sync" /\ call.outcome = "noop" /\ call.plan = EmptyPlan
  /\ call.blocks # <<>>
  /\ schema.source = "code" /\ schema.libraries = "scalar Date"

CheckoutB1 == [id |-> <<"b1">>, title |-> "Checkout", type |-> "event"]

\* The stored document holds exactly one type with an identity directive: it
\* is named Checkout, has a field id and carries blockId b1, role block, version 1
OnlyCheckoutManaged ==
  /\ Cardinality({j \in 1..Len(StoredNodes) : HasIdentityDirective(StoredNodes[j])}) = 1
  /\ \A j \in 1..Len(StoredNodes) :
       HasIdentityDirective(StoredNodes[j]) =>
         /\ StoredNodes[j].name = <<"Checkout">>
         /\ \E k \in 1..Len(StoredNodes[j].args) : StoredNodes[j].args[k].name = <<"id">>
         /\ IdentityOf(StoredNodes[j]) =
              [blockId |-> <<"b1">>, blockEntityType |-> BLOCK_ENTITY_TYPES.BLOCK]
         /\ getDirectiveArg(findDirectiveOnType(StoredNodes[j],
                                                DIRECTIVE_NAMES.EVENT_MODELING_BLOCK),
                            "version") = <<"1">>

Colliding(blocks) ==
  /\ Len(blocks) = 2 /\ blocks[1].id # blocks[2].id
  /\ toCamelCase(blocks[1].title) = toCamelCase(blocks[2].title)

\* The last sync got the colliding list of the sync before it with block k
\* removed or given another title
OneOfTwoChanged(k) ==
  /\ SyncOK /\ call.prev.known /\ Colliding(call.prev.blocks)
  /\ \/ call.blocks = <<call.prev.blocks[3 - k]>>
     \/ /\ Len(call.blocks) = 2
        /\ call.blocks[k].title # call.prev.blocks[k].title
        /\ call.prev.blocks = [call.blocks EXCEPT ![k].title = call.prev.blocks[k].title]

\* C15: two blocks whose titles give the same type name each have their own
\* type after a sync, and a later rename or removal of one of the two blocks
\* leaves the type of the other block in the document with its name and fields.
C15_CollidingTitlesTrackedApart ==
  /\ (SyncOK /\ Colliding(call.blocks)) =>
       \A k \in 1..2 :
         \E j \in Carrying(StoredNodes, call.blocks[k].id, BLOCK_ENTITY_TYPES.BLOCK) :
           StoredNodes[j].name = toCamelCase(call.blocks[k].title)
  /\ \A k \in 1..2 :
       OneOfTwoChanged(k) =>
         \A i \in Carrying(ReadNodes, call.prev.blocks[3 - k].id, BLOCK_ENTITY_TYPES.BLOCK) :
           \E j \in 1..Len(StoredNodes) : StoredNodes[j] = ReadNodes[i]

\* The names the fields of a node refer to, as pairs of the place and the name:
\* the type of field k, and the type of argument a of field k
FieldRefs(node) ==
  {<<k, 0, node.args[k].type.name>> : k \in 1..Len(node.args)}
  \cup UNION {{<<k, a, node.args[k].args[a].type.name>> : a \in 1..Len(node.args[k].args)} :
                k \in 1..Len(node.args)}

\* Node i of the renamed tree is what the rename made of node i of ast: same
\* places, every reference to oldName now newName, every other one untouched
RefsRewritten(before, after, oldName, newName) ==
  FieldRefs(after) =
    {<<r[1], r[2], IF r[3] = oldName THEN newName ELSE r[3]>> : r \in FieldRefs(before)}

\* C16: after renameTypeInAST(ast, old, new) on a document that defines old,
\* the type formerly named old is named new, and in every other type no field
\* and no field argument refers to old any more: each such reference names new.
C16_RenameKeepsReferences ==
  call.op = "renameTypeInAST" =>
    /\ Len(call.result) = Len(call.args.ast)
    /\ \A i \in 1..Len(call.args.ast) :
         IF call.args.ast[i].name = call.args.oldName
           THEN call.result[i].name = call.args.newName
           ELSE /\ call.result[i].name = call.args.ast[i].name
                /\ RefsRewritten(call.args.ast[i], call.result[i],
                                 call.args.oldName, call.args.newName)

\* A managed type: an object or input type bearing an identity directive
\* from which a blockId can be read
Managed(node) ==
  IsObjectOrInput(node) /\ HasIdentityDirective(node) /\ IdentityOf(node).blockId # <<>>

\* C17: findOrphanedTypes(ast, activeBlocks) returns exactly the object/input
\* types bearing a readable identity directive whose blockId is the id of no
\* active block, in document order: no type without an identity directive
\* and no type whose block is active is returned.
C17_OrphansExact ==
  call.op = "findOrphanedTypes" =>
    call.result =
      SelectSeq(call.args.ast,
                LAMBDA n : Managed(n) /\ IdentityOf(n).blockId \notin ActiveIds(call.args.activeBlocks))

\* A call that returned some types and left out a type of an active block, a
\* type whose directive holds no identity and a type without the directive
C17_Witness ==
  /\ call.op = "findOrphanedTypes"
  /\ call.result # <<>>
  /\ \E i, j, k \in 1..Len(call.args.ast) :
       /\ Managed(call.args.ast[i])
       /\ IdentityOf(call.args.ast[i]).blockId \in ActiveIds(call.args.activeBlocks)
       /\ IsObjectOrInput(call.args.ast[j]) /\ HasIdentityDirective(call.args.ast[j])
       /\ ~Managed(call.args.ast[j])
       /\ ~HasIdentityDirective(call.args.ast[k])
       /\ \A r \in 1..Len(call.result) :
            call.result[r] \notin {call.args.ast[i], call.args.ast[j], call.args.ast[k]}

\* C18: for a block of a kind other than command exactly one type is
\* required, of role block and named from the title; for a command block
\* exactly two, role input named <Name>Input and role result named
\* <Name>CommandResult; nothing but the block's id, title and kind decides it.
C18_RequiredTypeSet ==
  call.op = "getBlockTypeEntries" =>
    IF call.args.block.type = "command"
      THEN /\ Len(call.result) = 2
           /\ call.result[1] = [typeName |-> toCamelCase(call.args.block.title) \o <<"Input">>,
                                blockEntityType |-> <<"input">>]
           /\ call.result[2] = [typeName |-> toCamelCase(call.args.block.title) \o <<"CommandResult">>,
                                blockEntityType |-> <<"result">>]
      ELSE /\ Len(call.result) = 1
           /\ call.result[1] = [typeName |-> toCamelCase(call.args.block.title),
                                blockEntityType |-> <<"block">>]

\* The required types of a command block have been derived
C18_Witness ==
  /\ call.op = "getBlockTypeEntries"
  /\ call.args.block.type = "command"
  /\ call.args.block.title = "Pay Input"
  /\ Len(call.result) = 2

\* The string a directive carries for an argument, as its author wrote it
\* between the quotes; <<>> when the directive has no such argument
Written(directive, argName) ==
  IF \E i \in 1..Len(directive.args) : directive.args[i].name = argName
    THEN LET a == directive.args[CHOOSE i \in 1..Len(directive.args) :
                                   directive.args[i].name = argName]
         IN  IF a.vtype = "none"
               THEN (IF Len(a.tname) >= 2 /\ Head(a.tname) = QUOTE
                       THEN SubSeq(a.tname, 2, Len(a.tname) - 1) ELSE a.tname)
               ELSE a.value
    ELSE <<>>

NoIdentity == [blockId |-> <<>>, blockEntityType |-> <<>>]

\* The identity a legacy token stands for: 'X-input', 'X-result', or X
LegacyIdentity(token) ==
  IF Last(token) = "-input"
    THEN [blockId |-> SubSeq(token, 1, Len(token) - 1), blockEntityType |-> <<"input">>]
  ELSE IF Last(token) = "-result"
    THEN [blockId |-> SubSeq(token, 1, Len(token) - 1), blockEntityType |-> <<"result">>]
  ELSE [blockId |-> token, blockEntityType |-> <<"block">>]

\* C19: getBlockIdAndEntityTypeFromDirective returns the explicit blockId and
\* blockEntityType whenever the directive carries them, whatever its nodeId;
\* otherwise a legacy nodeId 'X-input' gives (X, input), 'X-result' gives
\* (X, result) and any other non-empty X gives (X, block); a missing directive
\* or a directive with none of these arguments gives no identity.
C19_IdentityReading ==
  call.op = "getBlockIdAndEntityTypeFromDirective" =>
    LET blockId == Written(call.args.directive, "blockId")
        blockEntityType == Written(call.args.directive, "blockEntityType")
        nodeId == Written(call.args.directive, "nodeId")
    IN  /\ (blockId # <<>> /\ blockEntityType # <<>>) =>
             call.result = [blockId |-> blockId, blockEntityType |-> blockEntityType]
        /\ (~(blockId # <<>> /\ blockEntityType # <<>>) /\ nodeId # <<>>) =>
             call.result = LegacyIdentity(nodeId)
        /\ (blockId = <<>> /\ blockEntityType = <<>> /\ nodeId = <<>>) =>
             call.result = NoIdentity

\* A directive with explicit arguments and a nodeId that says otherwise was read
C19_Witness ==
  /\ call.op = "getBlockIdAndEntityTypeFromDirective"
  /\ Written(call.args.directive, "blockId") = <<"b3">>
  /\ Written(call.args.directive, "blockEntityType") = <<"result">>
  /\ Written(call.args.directive, "nodeId") = <<"b1", "-input">>
  /\ call.result = [blockId |-> <<"b3">>, blockEntityType |-> <<"result">>]

\* The identity directives of a node, and its other directives, in order
IdentityDirectives(node) ==
  SelectSeq(node.directives, LAMBDA d : d.name = "eventModelingBlock")

OtherDirectives(node) ==
  SelectSeq(node.directives, LAMBDA d : d.name # "eventModelingBlock")

\* C20: after updateTypeDirective (addDirectiveToType) has written an identity
\* directive onto a type node, the node carries exactly one directive named
\* eventModelingBlock, the one written, whether it carried none, one or two
\* before, and all its other directives are kept.
C20_WriteReplaces ==
  call.op = "updateTypeDirective" =>
    /\ IdentityDirectives(call.result) =
         <<createEventModelingDirective(call.args.nodeId, call.args.blockType)>>
    /\ OtherDirectives(call.result) = OtherDirectives(call.args.node)

\* An identity was written onto a type that carried one next to another directive
C20_Witness ==
  /\ call.op = "updateTypeDirective"
  /\ Len(IdentityDirectives(call.args.node)) = 1
  /\ Len(OtherDirectives(call.args.node)) = 1
  /\ Len(call.result.directives) = 2

\* The steps of a plan in the order they are to be applied: the renames, then
\* the additions, then the removals, each list in its own order
PlanSteps(plan) ==
  [i \in 1..Len(plan.typesToRename) |-> [step |-> "rename", of |-> plan.typesToRename[i]]]
  \o [i \in 1..Len(plan.typesToAdd) |-> [step |-> "add", of |-> plan.typesToAdd[i]]]
  \o [i \in 1..Len(plan.typesToRemove) |-> [step |-> "remove", of |-> plan.typesToRemove[i]]]

ApplyStep(nodes, s) ==
  IF s.step = "rename" THEN renameTypeInAST(nodes, s.of.oldName, s.of.newName)
  ELSE IF s.step = "add"
    THEN addTypeToAST(nodes, s.of.typeName, s.of.blockType, s.of.blockId, s.of.blockEntityType)
  ELSE removeTypeFromAST(nodes, s.of)

RECURSIVE ApplySteps(_, _)
ApplySteps(nodes, steps) ==
  IF steps = <<>> THEN nodes ELSE ApplySteps(ApplyStep(nodes, Head(steps)), Tail(steps))

\* C21: applyChangePlan applies all renames of the plan first, then all
\* additions, then all removals, each list in plan order; its result is
\* applyRemovals(applyAdditions(applyRenames(ast))).
C21_OrderOfApplication ==
  call.op = "applyChangePlan" =>
    /\ call.result = ApplySteps(call.args.ast, PlanSteps(call.args.plan))
    /\ call.result =
         applyRemovals(applyAdditions(applyRenames(call.args.ast, call.args.plan.typesToRename),
                                      call.args.plan.typesToAdd),
                       call.args.plan.typesToRemove)

\* A plan that renames a type, adds a type of the new name and removes the
\* old name was applied, and another order would have given another tree
C21_Witness ==
  /\ call.op = "applyChangePlan"
  /\ call.args.plan.typesToRename # <<>> /\ call.args.plan.typesToAdd # <<>>
  /\ call.args.plan.typesToRemove # <<>>
  /\ call.result # applyAdditions(applyRenames(applyRemovals(call.args.ast,
                                                             call.args.plan.typesToRemove),
                                                call.args.plan.typesToRename),
                                   call.args.plan.typesToAdd)

\* A text that is a non-empty sequence of declarations
WellFormed(text) ==
  text # <<>> /\ \A i \in 1..Len(text) : text[i].kw \in {"type", "input", "enum"}

\* C22: parseSchemaToASTSafe never throws; it returns the empty AST for an
\* empty, a whitespace-only and a malformed text, and for a well-formed text
\* the AST parseSchemaToAST returns.
C22_SafeParseNeverFails ==
  call.op = "parseSchemaToASTSafe" =>
    /\ call.result.ok
    /\ ~WellFormed(call.args.schema) => call.result.nodes = <<>>
    /\ WellFormed(call.args.schema) =>
         /\ parseSchemaToAST(call.args.schema).ok
         /\ call.result.nodes = parseSchemaToAST(call.args.schema).nodes
         /\ Len(call.result.nodes) = Len(call.args.schema)

\* A malformed text that is not blank was parsed safely
C22_Witness ==
  /\ call.op = "parseSchemaToASTSafe"
  /\ call.args.schema = <<QueryDecl, Garbage>>
  /\ call.result = [ok |-> TRUE, nodes |-> <<>>]

\* The types of the document a sync read that belong to a command block of
\* the list it was given
CommandTypes(nodes, blocks) ==
  {i \in 1..Len(nodes) :
     /\ IsObjectOrInput(nodes[i])
     /\ \E k \in 1..Len(blocks) :
          /\ blocks[k].type = "command"
          /\ IdentityOf(nodes[i]).blockId = blocks[k].id
          /\ IdentityOf(nodes[i]).blockEntityType \in {<<"input">>, <<"result">>}}

\* C24: while a command block is in the block list, a sync never puts its
\* Input and CommandResult types in the removal list.
C24_CommandTypesSurvive ==
  SyncOK =>
    \A i \in CommandTypes(ReadNodes, call.blocks) :
      /\ \A r \in 1..Len(call.plan.typesToRemove) : call.plan.typesToRemove[r] # ReadNodes[i].name
      /\ call.outcome = "stored" =>
           Carrying(StoredNodes, IdentityOf(ReadNodes[i]).blockId,
                    IdentityOf(ReadNodes[i]).blockEntityType) # {}

\* C26: the reference rewrite of a rename changes only the name referred to:
\* a field whose type wraps the old name in a list or non-null ([Old!]!) has
\* the same wrapping around the new name afterwards ([New!]!).
C26_RenameKeepsWrapping ==
  call.op = "renameTypeInAST" =>
    \A i \in 1..Len(call.args.ast) :
      call.args.ast[i].name # call.args.oldName =>
        \A k \in 1..Len(call.args.ast[i].args) :
          call.args.ast[i].args[k].type.name = call.args.oldName =>
            /\ call.result[i].args[k].type.name = call.args.newName
            /\ call.result[i].args[k].type.wrap = call.args.ast[i].args[k].type.wrap
            /\ PrintFieldType(call.result[i].args[k].type) =
                 [t \in 1..Len(PrintFieldType(call.args.ast[i].args[k].type)) |->
                    IF <<PrintFieldType(call.args.ast[i].args[k].type)[t]>> = call.args.oldName
                      THEN call.args.newName[1]
                      ELSE PrintFieldType(call.args.ast[i].args[k].type)[t]]

\* C27: a sync that rewrites the schema text leaves the library text alone:
\* the stored libraries value is the one stored before the sync.
C27_SyncKeepsLibraries ==
  (SyncRan /\ call.outcome = "stored") => schema.libraries = call.stored.libraries

\* C28: for every block id, ids ending in '-input' or '-result' included, and
\* every role, the identity directive addTypeToAST or
\* createEventModelingDirective writes for (blockId, role) is read back by
\* getBlockIdAndEntityTypeFromDirective as the same (blockId, role).
C28_IdentityRoundTrip ==
  call.op = "roundTrip" =>
    call.result = [blockId |-> call.args.blockId, blockEntityType |-> call.args.blockEntityType]

\* C29: the block list importSchemaFromData passes to sync holds every block
\* id at most once, also when the file lists a block both in blocks and in
\* the legacy blockRegistry.
C29_ImportedBlocksDistinct ==
  (call.op = "import" /\ call.outcome # "none") => DistinctIds(call.blocks)

\* C30: a sync that computes a non-empty plan and succeeds stores the
\* document with provenance 'outside', whatever the provenance of the
\* document it found.
C30_SyncWritesAsSystem ==
  (SyncRan /\ call.plan # EmptyPlan /\ call.outcome # "error") =>
    /\ call.outcome = "stored"
    /\ schema.source = "outside"

\* A sync changed a document that an edit in the code pane had stored
C30_Witness ==
  /\ call.op = "sync" /\ call.outcome = "stored"
  /\ call.stored.source = "code"
  /\ schema.code # call.stored.code

\* The sync of the canvas has nothing left to do on the stored text
Settled ==
  /\ Quiescent
  /\ (canvas # <<>> /\ Parses(schema.code)) =>
       ChangePlanFor(StoredNodes, canvas) = EmptyPlan

\* C23: after a change of the block list or an edit in the editor the
\* auto-sync effect writes the document finitely many times and then reaches
\* a state in which the plan of sync is empty and nothing more is written.
C23_AutoSyncSettles == []<>Settled

\* C25: each time the block list derived from the canvas changes, the change
\* that empties it included, sync is called with the new list, so that the
\* types of a removed block are removed from the document.
C25_SyncOnEveryListChange ==
  Quiescent =>
    /\ IF LastSynced.known THEN LastSynced.blocks = canvas ELSE canvas = <<>>
    /\ Parses(schema.code) =>
         \A i \in 1..Len(StoredNodes) :
           Managed(StoredNodes[i]) => IdentityOf(StoredNodes[i]).blockId \in ActiveIds(canvas)

====
